---- MODULE Spec2Model ----
(***************************************************************************)
(* Offline task sync: TaskService (createTask / updateTask / deleteTask)   *)
(* writing the tasks table and the sync_queue table, and SyncService.sync  *)
(* draining the queue in batches against a remote batch endpoint.          *)
(*                                                                         *)
(* uuids are modelled by fresh counters (a task's id is its index in the   *)
(* tasks table), ISO timestamps by the value of a clock that moves forward *)
(* with every write of TaskService, titles by sequences of characters.     *)
(* The task columns                                                        *)
(* description and completed are copied through by every handler and read  *)
(* by none of the properties below; they are left out.                     *)
(***************************************************************************)
EXTENDS Naturals, Integers, Sequences, FiniteSets, TLC

\* ---------------------------------------------------------------- bounds
MaxTasks == 2
MaxEntries == 3
RetryCap == 4
MaxBatch == 2
MaxFaults == 1

\* ------------------------------------------------------ program constants
DEFAULT_RETRIES == 3

NoVal == "null"

maxRetries == DEFAULT_RETRIES

BatchSizes == 1..MaxBatch

TitleInputs == {<<" ">>, <<" ", "a", " ">>}

UpdateInputs == {<< >>} \cup {[title |-> t] : t \in TitleInputs}

NoItem == [status |-> "none"]

NoCall == [op |-> "none", id |-> 0, val |-> "none"]

ServerIds == {"srv-1", "srv-2"}

ServerTitle == <<"S">>

TransportError == "Network Error"

RemoteErrors == {"rejected"}

VARIABLES
    tasks,      \* the tasks table: a sequence of rows, row i has id i
    queue,      \* the sync_queue table: a set of rows
    nextQ,      \* the next fresh sync_queue id
    now,        \* the clock
    faults,     \* TaskService calls so far whose second write failed
    batchSize,  \* SyncService.batchSize
    pc,         \* where the sync() run is: idle, checked, batch, resp, fail, done
    connected,  \* sync()'s local: what checkConnectivity answered
    items,      \* sync()'s local: the rows fetchSyncQueueItems returned
    i,          \* sync()'s loop index: offset of the current batch in items
    k,          \* position in the current batch of the next item to handle
    pi,         \* the processed item handled last in the current batch
    sent,       \* the batches posted so far in this run (their row ids)
    result,     \* sync()'s SyncResult
    ret         \* what the TaskService call of the last step returned

vars == <<tasks, queue, nextQ, now, faults, batchSize, pc, connected, items, i, k, pi,
          sent, result, ret>>

\* ------------------------------------------------------------- helpers

Min(a, b) == IF a < b THEN a ELSE b

IsSpace(c) == c = " "

RECURSIVE TrimStart(_)
TrimStart(s) ==
    IF s # << >> /\ IsSpace(Head(s)) THEN TrimStart(Tail(s)) ELSE s

RECURSIVE TrimEnd(_)
TrimEnd(s) ==
    IF s # << >> /\ IsSpace(s[Len(s)]) THEN TrimEnd(SubSeq(s, 1, Len(s) - 1)) ELSE s

Trim(s) == TrimEnd(TrimStart(s))

TaskIds == 1..Len(tasks)

Exists(id) == id \in TaskIds

EntriesOf(q, id) == {e \in q : e.task_id = id}

SetStatus(t, id, st) ==
    [x \in DOMAIN t |-> IF x = id THEN [t[x] EXCEPT !.sync_status = st] ELSE t[x]]

\* ------------------------------------------------------------ TaskService

QueueRow(qid, id, op, title, updated, deleted) ==
    [id |-> qid, task_id |-> id, operation |-> op,
     data |-> [title |-> title, updated_at |-> updated, is_deleted |-> deleted],
     created_at |-> updated, retry_count |-> 0, error_message |-> NoVal]

NewTaskRow(title) ==
    [title |-> title, created_at |-> now, updated_at |-> now,
     is_deleted |-> FALSE, sync_status |-> "pending",
     server_id |-> NoVal, last_synced_at |-> << >>]

CreateValidAlways(title) == TRUE

CreateValid(title) == Trim(title) # << >>

InsertTask(title) == Append(tasks, NewTaskRow(Trim(title)))

UpdateOutcomeIgnoresDeleted(id) == IF ~Exists(id) THEN "null" ELSE "task"

UpdateOutcome(id) ==
    IF ~Exists(id) THEN "null"
    ELSE IF tasks[id].is_deleted THEN "null"
    ELSE "task"

DeleteOutcome(id) ==
    IF ~Exists(id) THEN "false"
    ELSE IF tasks[id].is_deleted THEN "false"
    ELSE "true"

UpdatedTitle(id, updates) ==
    IF "title" \in DOMAIN updates THEN Trim(updates.title) ELSE tasks[id].title

UpdateRow(id, updates) ==
    [tasks EXCEPT ![id] = [@ EXCEPT !.title = UpdatedTitle(id, updates),
                                     !.updated_at = now,
                                     !.sync_status = "pending"]]

DeleteRowKeepsFlag(id) ==
    [tasks EXCEPT ![id] = [@ EXCEPT !.updated_at = now, !.sync_status = "pending"]]

DeleteRow(id) ==
    [tasks EXCEPT ![id] = [@ EXCEPT !.is_deleted = TRUE,
                                     !.updated_at = now,
                                     !.sync_status = "pending"]]

SyncLocals == <<batchSize, pc, connected, items, i, k, pi, sent, result>>

CreateTask ==
    /\ pc = "idle"
    /\ \E title \in TitleInputs :
        IF ~CreateValid(title)
        THEN /\ ret' = [op |-> "create", id |-> 0, val |-> "throw"]
             /\ UNCHANGED <<tasks, queue, nextQ, now>>
        ELSE /\ Len(tasks) < MaxTasks
             /\ nextQ <= MaxEntries
             /\ tasks' = InsertTask(title)
             /\ queue' = queue \cup
                  {QueueRow(nextQ, Len(tasks) + 1, "create", Trim(title), now, FALSE)}
             /\ nextQ' = nextQ + 1
             /\ now' = now + 1
             /\ ret' = [op |-> "create", id |-> Len(tasks) + 1, val |-> "task"]
    /\ UNCHANGED <<faults, SyncLocals>>

UpdateTask ==
    /\ pc = "idle"
    /\ \E id \in 1..MaxTasks, updates \in UpdateInputs :
        /\ ret' = [op |-> "update", id |-> id, val |-> UpdateOutcome(id)]
        /\ IF UpdateOutcome(id) = "null"
           THEN UNCHANGED <<tasks, queue, nextQ, now>>
           ELSE /\ nextQ <= MaxEntries
                /\ now' = now + 1
                /\ tasks' = UpdateRow(id, updates)
                /\ queue' = queue \cup
                     {QueueRow(nextQ, id, "update", UpdatedTitle(id, updates), now, FALSE)}
                /\ nextQ' = nextQ + 1
    /\ UNCHANGED <<faults, SyncLocals>>

DeleteTask ==
    /\ pc = "idle"
    /\ \E id \in 1..MaxTasks :
        /\ ret' = [op |-> "delete", id |-> id, val |-> DeleteOutcome(id)]
        /\ IF DeleteOutcome(id) = "false"
           THEN UNCHANGED <<tasks, queue, nextQ, now>>
           ELSE /\ nextQ <= MaxEntries
                /\ now' = now + 1
                /\ tasks' = DeleteRow(id)
                /\ queue' = queue \cup
                     {QueueRow(nextQ, id, "delete", tasks[id].title, now, TRUE)}
                /\ nextQ' = nextQ + 1
    /\ UNCHANGED <<faults, SyncLocals>>

\* The second db.run of a handler rejects (or the process stops before it): the
\* tasks row is written, the sync_queue row whose id was drawn is not, and the
\* call throws.
CreateTaskFault ==
    /\ pc = "idle"
    /\ faults < MaxFaults
    /\ nextQ <= MaxEntries
    /\ nextQ' = nextQ + 1
    /\ faults' = faults + 1
    /\ \E title \in TitleInputs :
        /\ CreateValid(title)
        /\ Len(tasks) < MaxTasks
        /\ tasks' = InsertTask(title)
    /\ now' = now + 1
    /\ ret' = [op |-> "create", id |-> 0, val |-> "throw"]
    /\ UNCHANGED <<queue, SyncLocals>>

UpdateTaskFault ==
    /\ pc = "idle"
    /\ faults < MaxFaults
    /\ nextQ <= MaxEntries
    /\ nextQ' = nextQ + 1
    /\ faults' = faults + 1
    /\ \E id \in 1..MaxTasks, updates \in UpdateInputs :
        /\ UpdateOutcome(id) = "task"
        /\ tasks' = UpdateRow(id, updates)
        /\ ret' = [op |-> "update", id |-> id, val |-> "throw"]
    /\ now' = now + 1
    /\ UNCHANGED <<queue, SyncLocals>>

DeleteTaskFault ==
    /\ pc = "idle"
    /\ faults < MaxFaults
    /\ nextQ <= MaxEntries
    /\ nextQ' = nextQ + 1
    /\ faults' = faults + 1
    /\ \E id \in 1..MaxTasks :
        /\ DeleteOutcome(id) = "true"
        /\ tasks' = DeleteRow(id)
        /\ ret' = [op |-> "delete", id |-> id, val |-> "throw"]
    /\ now' = now + 1
    /\ UNCHANGED <<queue, SyncLocals>>

\* ------------------------------------------------------------ SyncService

InitResult == [success |-> TRUE, synced_items |-> 0, failed_items |-> 0, errors |-> << >>]

OfflineResult ==
    [InitResult EXCEPT !.success = FALSE,
        !.errors = <<[task_id |-> "", operation |-> "sync", error |-> "Offline"]>>]

IsSortedAsc(s) ==
    \A a, b \in 1..Len(s) : a < b => s[a].created_at <= s[b].created_at

FetchSyncQueueItemsUnordered ==
    {s \in [1..Cardinality(queue) -> queue] :
        \A a, b \in 1..Cardinality(queue) : a # b => s[a] # s[b]}

FetchSyncQueueItems ==
    {s \in [1..Cardinality(queue) -> queue] :
        /\ \A a, b \in 1..Cardinality(queue) : a # b => s[a] # s[b]
        /\ IsSortedAsc(s)}

Batch == SubSeq(items, i + 1, Min(i + batchSize, Len(items)))

BatchIds(b) == [x \in 1..Len(b) |-> b[x].id]

UpdateSyncStatusTasksKeepsServerId(t, taskId, status, serverData) ==
    [x \in DOMAIN t |->
        IF x = taskId
        THEN [t[x] EXCEPT !.sync_status = status, !.last_synced_at = <<now>>]
        ELSE t[x]]

UpdateSyncStatusTasks(t, taskId, status, serverData) ==
    [x \in DOMAIN t |->
        IF x = taskId
        THEN [t[x] EXCEPT !.sync_status = status,
                          !.server_id = serverData.server_id,
                          !.last_synced_at = <<now>>]
        ELSE t[x]]

UpdateSyncStatusQueueKeepsRows(q, taskId, status) == q

UpdateSyncStatusQueue(q, taskId, status) ==
    IF status = "synced" THEN {e \in q : e.task_id # taskId} ELSE q

ServerData(p) ==
    IF "server_id" \in DOMAIN p.resolved_data
    THEN [server_id |-> p.resolved_data.server_id]
    ELSE [server_id |-> p.server_id]

HandleSyncErrorQueueDropsMessage(q, item, msg) ==
    {IF e.id = item.id
     THEN [e EXCEPT !.retry_count = item.retry_count + 1]
     ELSE e : e \in q}

HandleSyncErrorQueue(q, item, msg) ==
    {IF e.id = item.id
     THEN [e EXCEPT !.retry_count = item.retry_count + 1, !.error_message = msg]
     ELSE e : e \in q}

HandleSyncErrorTasksOffByOne(t, item) ==
    IF item.retry_count + 1 > maxRetries /\ item.task_id \in DOMAIN t
    THEN SetStatus(t, item.task_id, "error")
    ELSE t

HandleSyncErrorTasks(t, item) ==
    IF item.retry_count + 1 >= maxRetries /\ item.task_id \in DOMAIN t
    THEN SetStatus(t, item.task_id, "error")
    ELSE t

FindQueueItem(b, clientId) ==
    {b[x] : x \in {x \in 1..Len(b) :
                      /\ b[x].task_id = clientId
                      /\ \A y \in 1..(x - 1) : b[y].task_id # clientId}}

\* resolved_data of a processed item: the remote's version of the task on a
\* conflict (its title, its updated_at, its server_id), absent otherwise.
ResolvedData(st, sid, ts) ==
    IF st = "conflict"
    THEN [title |-> ServerTitle, updated_at |-> ts, server_id |-> sid]
    ELSE << >>

\* The updated_at values the remote's version can carry: older than or equal
\* to every local write, or newer than every local write.
ServerTimes == {0, now}

ResolveConflict(localTask, serverTask) ==
    IF serverTask.updated_at >= localTask.updated_at THEN serverTask ELSE localTask

MutatorState == <<nextQ, now, faults>>

SyncCheck ==
    /\ ret' = NoCall
    /\ pc = "idle"
    /\ pc' = "checked"
    /\ connected' \in BOOLEAN
    /\ UNCHANGED <<tasks, queue, MutatorState, batchSize, items, i, k, pi, sent, result>>

SyncOfflineCountsFailures ==
    /\ ret' = NoCall
    /\ pc = "checked"
    /\ ~connected
    /\ result' = OfflineResult
    /\ pc' = "done"
    /\ queue' = {[e EXCEPT !.retry_count = Min(@ + 1, RetryCap)] : e \in queue}
    /\ UNCHANGED <<tasks, MutatorState, batchSize, connected, items, i, k, pi, sent>>

SyncOffline ==
    /\ ret' = NoCall
    /\ pc = "checked"
    /\ ~connected
    /\ result' = OfflineResult
    /\ pc' = "done"
    /\ UNCHANGED <<tasks, queue, MutatorState, batchSize, connected, items, i, k, pi, sent>>

SyncFetch ==
    /\ ret' = NoCall
    /\ pc = "checked"
    /\ connected
    /\ \E its \in FetchSyncQueueItems :
        /\ items' = its
        /\ pc' = IF Len(its) = 0 THEN "done" ELSE "batch"
    /\ result' = InitResult
    /\ i' = 0
    /\ k' = 1
    /\ pi' = NoItem
    /\ sent' = << >>
    /\ UNCHANGED <<tasks, queue, MutatorState, batchSize, connected>>

DispatchOk ==
    /\ ret' = NoCall
    /\ pc = "batch"
    /\ pc' = "resp"
    /\ k' = 1
    /\ pi' = NoItem
    /\ sent' = Append(sent, BatchIds(Batch))
    /\ UNCHANGED <<tasks, queue, MutatorState, batchSize, connected, items, i, result>>

\* processBatch rejects (network error or timeout).  RetryCap bounds how often
\* the model lets one row fail.
DispatchFail ==
    /\ ret' = NoCall
    /\ pc = "batch"
    /\ \A x \in 1..Len(Batch) : Batch[x].retry_count < RetryCap
    /\ pc' = "fail"
    /\ k' = 1
    /\ pi' = NoItem
    /\ sent' = Append(sent, BatchIds(Batch))
    /\ UNCHANGED <<tasks, queue, MutatorState, batchSize, connected, items, i, result>>

\* The remote answers the rows of a batch in the order they were posted, one
\* processed item per row, echoing the row's task_id as client_id; what it
\* answers for a row is drawn when sync() comes to that item (pi.entry records
\* which row the item answers; the code sees client_id only).
ItemAccepted ==
    /\ ret' = NoCall
    /\ pc = "resp"
    /\ k <= Len(Batch)
    /\ \E st \in {"success", "conflict"}, sid \in ServerIds, ts \in ServerTimes :
        LET p == [client_id |-> Batch[k].task_id, server_id |-> sid, status |-> st,
                  resolved_data |-> ResolvedData(st, sid, ts), error |-> NoVal,
                  entry |-> Batch[k].id]
        IN /\ pi' = p
           /\ tasks' = UpdateSyncStatusTasks(tasks, p.client_id, "synced", ServerData(p))
           /\ queue' = UpdateSyncStatusQueue(queue, p.client_id, "synced")
    /\ result' = [result EXCEPT !.synced_items = @ + 1]
    /\ k' = k + 1
    /\ UNCHANGED <<MutatorState, batchSize, pc, connected, items, i, sent>>

\* The DELETE of updateSyncStatus rejects: the error is caught and logged, the
\* tasks row stays written and sync() goes on with the next item.
ItemAcceptedPruneFails ==
    /\ ret' = NoCall
    /\ pc = "resp"
    /\ k <= Len(Batch)
    /\ faults < MaxFaults
    /\ faults' = faults + 1
    /\ \E st \in {"success", "conflict"}, sid \in ServerIds, ts \in ServerTimes :
        LET p == [client_id |-> Batch[k].task_id, server_id |-> sid, status |-> st,
                  resolved_data |-> ResolvedData(st, sid, ts), error |-> NoVal,
                  entry |-> Batch[k].id]
        IN /\ pi' = p
           /\ tasks' = UpdateSyncStatusTasks(tasks, p.client_id, "synced", ServerData(p))
    /\ result' = [result EXCEPT !.synced_items = @ + 1]
    /\ k' = k + 1
    /\ UNCHANGED <<queue, nextQ, now, batchSize, pc, connected, items, i, sent>>

ItemError ==
    /\ ret' = NoCall
    /\ pc = "resp"
    /\ k <= Len(Batch)
    /\ \E err \in RemoteErrors :
        LET p == [client_id |-> Batch[k].task_id, server_id |-> NoVal, status |-> "error",
                  resolved_data |-> << >>, error |-> err, entry |-> Batch[k].id]
            queueItem == FindQueueItem(Batch, p.client_id)
        IN /\ pi' = p
           /\ result' = [result EXCEPT
                 !.failed_items = @ + 1,
                 !.success = FALSE,
                 !.errors = Append(@, [task_id |-> p.client_id, operation |-> "sync",
                                       error |-> IF err = NoVal THEN "unknown" ELSE err])]
           /\ IF queueItem # {}
              THEN \E it \in queueItem :
                   /\ it.retry_count < RetryCap
                   /\ queue' = HandleSyncErrorQueue(queue, it,
                                   IF err = NoVal THEN "sync error" ELSE err)
                   /\ tasks' = HandleSyncErrorTasks(tasks, it)
              ELSE UNCHANGED <<tasks, queue>>
    /\ k' = k + 1
    /\ UNCHANGED <<MutatorState, batchSize, pc, connected, items, i, sent>>

FailItemKeepsSuccess ==
    /\ ret' = NoCall
    /\ pc = "fail"
    /\ k <= Len(Batch)
    /\ queue' = HandleSyncErrorQueue(queue, Batch[k], TransportError)
    /\ tasks' = HandleSyncErrorTasks(tasks, Batch[k])
    /\ result' = [result EXCEPT
          !.failed_items = @ + 1,
          !.errors = Append(@, [task_id |-> Batch[k].task_id,
                                operation |-> Batch[k].operation,
                                error |-> TransportError])]
    /\ k' = k + 1
    /\ UNCHANGED <<MutatorState, batchSize, pc, connected, items, i, pi, sent>>

FailItem ==
    /\ ret' = NoCall
    /\ pc = "fail"
    /\ k <= Len(Batch)
    /\ queue' = HandleSyncErrorQueue(queue, Batch[k], TransportError)
    /\ tasks' = HandleSyncErrorTasks(tasks, Batch[k])
    /\ result' = [result EXCEPT
          !.failed_items = @ + 1,
          !.success = FALSE,
          !.errors = Append(@, [task_id |-> Batch[k].task_id,
                                operation |-> Batch[k].operation,
                                error |-> TransportError])]
    /\ k' = k + 1
    /\ UNCHANGED <<MutatorState, batchSize, pc, connected, items, i, pi, sent>>

BatchDoneNeverAdvances ==
    /\ ret' = NoCall
    /\ pc \in {"resp", "fail"}
    /\ k > Len(Batch)
    /\ Len(sent) <= MaxBatch + MaxEntries
    /\ pc' = "batch"
    /\ k' = 1
    /\ pi' = NoItem
    /\ UNCHANGED <<tasks, queue, MutatorState, batchSize, connected, items, i, sent, result>>

BatchDoneAbortsOnFailure ==
    /\ ret' = NoCall
    /\ pc \in {"resp", "fail"}
    /\ k > Len(Batch)
    /\ i' = i + batchSize
    /\ pc' = IF i + batchSize < Len(items) /\ result.success THEN "batch" ELSE "done"
    /\ k' = 1
    /\ pi' = NoItem
    /\ UNCHANGED <<tasks, queue, MutatorState, batchSize, connected, items, sent, result>>

BatchDone ==
    /\ ret' = NoCall
    /\ pc \in {"resp", "fail"}
    /\ k > Len(Batch)
    /\ i' = i + batchSize
    /\ pc' = IF i + batchSize < Len(items) THEN "batch" ELSE "done"
    /\ k' = 1
    /\ pi' = NoItem
    /\ UNCHANGED <<tasks, queue, MutatorState, batchSize, connected, items, sent, result>>

SyncReturn ==
    /\ ret' = NoCall
    /\ pc = "done"
    /\ pc' = "idle"
    /\ connected' = FALSE
    /\ items' = << >>
    /\ i' = 0
    /\ k' = 1
    /\ pi' = NoItem
    /\ sent' = << >>
    /\ result' = InitResult
    /\ UNCHANGED <<tasks, queue, MutatorState, batchSize>>

\* ---------------------------------------------------------- specification

Init ==
    /\ tasks = << >>
    /\ queue = {}
    /\ nextQ = 1
    /\ now = 0
    /\ faults = 0
    /\ batchSize \in BatchSizes
    /\ pc = "idle"
    /\ connected = FALSE
    /\ items = << >>
    /\ i = 0
    /\ k = 1
    /\ pi = NoItem
    /\ sent = << >>
    /\ result = InitResult
    /\ ret = NoCall

Next ==
    \/ CreateTask
    \/ UpdateTask
    \/ DeleteTask
    \/ SyncCheck
    \/ SyncOffline
    \/ SyncFetch
    \/ DispatchOk
    \/ DispatchFail
    \/ ItemAccepted
    \/ ItemError
    \/ FailItem
    \/ BatchDone
    \/ SyncReturn

Spec == Init /\ [][Next]_vars

\* The same program on a store whose writes can fail one at a time.
NextFault ==
    \/ Next
    \/ CreateTaskFault
    \/ UpdateTaskFault
    \/ DeleteTaskFault

SpecFault == Init /\ [][NextFault]_vars

\* The program on a store whose DELETE FROM sync_queue can fail, against a
\* remote that is reachable whenever a batch is posted and accepts every row
\* (as the repository's own /batch endpoint does).
NextPruneFault ==
    \/ CreateTask
    \/ UpdateTask
    \/ DeleteTask
    \/ SyncCheck
    \/ SyncOffline
    \/ SyncFetch
    \/ DispatchOk
    \/ ItemAccepted
    \/ ItemAcceptedPruneFails
    \/ BatchDone
    \/ SyncReturn

SpecPruneFault == Init /\ [][NextPruneFault]_vars

\* A request served while a sync() run waits on one of its awaits (the post of
\* a batch or a statement of the store): updateTask on the same tables.
UpdateTaskInFlight ==
    /\ pc \in {"batch", "resp", "fail"}
    /\ \E id \in 1..MaxTasks, updates \in UpdateInputs :
        /\ UpdateOutcome(id) = "task"
        /\ nextQ <= MaxEntries
        /\ now' = now + 1
        /\ tasks' = UpdateRow(id, updates)
        /\ queue' = queue \cup
             {QueueRow(nextQ, id, "update", UpdatedTitle(id, updates), now, FALSE)}
        /\ nextQ' = nextQ + 1
        /\ ret' = [op |-> "update", id |-> id, val |-> "task"]
    /\ UNCHANGED <<faults, SyncLocals>>

\* The same for deleteTask.
DeleteTaskInFlight ==
    /\ pc \in {"batch", "resp", "fail"}
    /\ \E id \in 1..MaxTasks :
        /\ DeleteOutcome(id) = "true"
        /\ nextQ <= MaxEntries
        /\ now' = now + 1
        /\ tasks' = DeleteRow(id)
        /\ queue' = queue \cup
             {QueueRow(nextQ, id, "delete", tasks[id].title, now, TRUE)}
        /\ nextQ' = nextQ + 1
        /\ ret' = [op |-> "delete", id |-> id, val |-> "true"]
    /\ UNCHANGED <<faults, SyncLocals>>

\* The program with TaskService calls served also while a sync() run is in
\* flight.
NextInFlight ==
    \/ Next
    \/ UpdateTaskInFlight
    \/ DeleteTaskInFlight

SpecInFlight == Init /\ [][NextInFlight]_vars

\* A step of a sync() run that has started.  Each of them ends: the probe and
\* the post carry timeouts, the statements of the store return.
RunStep ==
    \/ SyncOffline
    \/ SyncFetch
    \/ DispatchOk
    \/ DispatchFail
    \/ ItemAccepted
    \/ ItemError
    \/ FailItem
    \/ BatchDone

SpecInFlightFair == SpecInFlight /\ WF_vars(RunStep)

\* ------------------------------------------------------------ properties

RowIds(q) == {e.id : e \in q}

\* A TaskService write touched the row of task id in this step.
Mutated(id) ==
    \/ id \notin 1..Len(tasks) /\ id \in 1..Len(tasks')
    \/ id \in 1..Len(tasks) /\ tasks'[id].updated_at # tasks[id].updated_at

NewRowsFor(id) == {e \in queue' : e.id \notin RowIds(queue) /\ e.task_id = id}

\* C1: a Record write of create, update or delete and the append of its Queue
\* Entry happen together: every step that writes a task row appends exactly
\* one sync_queue row for that task, also when a write of the store fails.
C1_RecordAndEntryTogether ==
    [][\A id \in 1..MaxTasks : Mutated(id) => Cardinality(NewRowsFor(id)) = 1]_vars

\* C2: between calls (no sync() run in flight), every Record that is pending or
\* error has at least one Queue Entry and every synced Record has none.
C2_StatusQueueInvariant ==
    pc = "idle" =>
        \A id \in TaskIds :
            /\ tasks[id].sync_status \in {"pending", "error"} => EntriesOf(queue, id) # {}
            /\ tasks[id].sync_status = "synced" => EntriesOf(queue, id) = {}

\* C3: a Queue Entry leaves the queue only in the step in which the remote's
\* answer for that very entry (success or conflict) is applied.
C3_PrunedOnlyWhenAccepted ==
    [][\A e \in queue :
          e.id \notin RowIds(queue') =>
              /\ pi'.status \in {"success", "conflict"}
              /\ pi'.entry = e.id]_vars

\* C4: once a conflict item has been applied, the Record carries the title of
\* resolved_data, is synced and has no Queue Entry.
C4_ConflictAppliesResolution ==
    (pc = "resp" /\ pi.status = "conflict") =>
        /\ tasks[pi.client_id].title = pi.resolved_data.title
        /\ tasks[pi.client_id].sync_status = "synced"
        /\ EntriesOf(queue, pi.client_id) = {}

ItemById(id) == CHOOSE e \in {items[x] : x \in 1..Len(items)} : e.id = id

\* C5: no entry is retried past the ceiling: no row's retry_count exceeds
\* maxRetries, and no posted batch holds a row that had already failed
\* maxRetries times.
C5_RetryStopsAtCeiling ==
    /\ \A e \in queue : e.retry_count <= maxRetries
    /\ \A n \in 1..Len(sent) : \A x \in 1..Len(sent[n]) :
          ItemById(sent[n][x]).retry_count < maxRetries

\* The row handleSyncError is called with in this step, if any.
Failing ==
    IF pc = "fail" /\ k' = k + 1 THEN {Batch[k]}
    ELSE IF pc = "resp" /\ k' = k + 1 /\ pi'.status = "error"
         THEN FindQueueItem(Batch, pi'.client_id)
    ELSE {}

C8_OfflineShortCircuit ==
    [][(pc = "checked" /\ ~connected) =>
          /\ pc' = "done"
          /\ result'.success = FALSE
          /\ result'.synced_items = 0
          /\ result'.failed_items = 0
          /\ Len(result'.errors) = 1
          /\ result'.errors[1].error = "Offline"
          /\ sent' = sent
          /\ UNCHANGED <<tasks, queue>>]_vars

C8_Witness ==
    /\ pc = "done"
    /\ ~connected
    /\ \E e \in queue : e.retry_count > 0 /\ e.error_message # NoVal

\* C9: the rows fetched are posted in ascending created_at order, in batches
\* posted one after another: of two rows with created_at t1 < t2 the t1 row is
\* in the same or an earlier batch, no row is posted before an older one that
\* is still waiting, and a batch is posted only when the batch before it has
\* been handled to its end.
C9_OldestFirst ==
    /\ \A m, n \in 1..Len(sent) : \A x \in 1..Len(sent[m]) : \A y \in 1..Len(sent[n]) :
          /\ ItemById(sent[m][x]).created_at < ItemById(sent[n][y]).created_at => m <= n
          /\ (m = n /\ ItemById(sent[m][x]).created_at < ItemById(sent[n][y]).created_at)
                => x < y
    /\ \A n \in 1..Len(sent) : \A x \in 1..Len(sent[n]) : \A z \in 1..Len(items) :
          items[z].created_at < ItemById(sent[n][x]).created_at =>
              \E m \in 1..n : \E y \in 1..Len(sent[m]) : sent[m][y] = items[z].id
    /\ pc = "batch" => Len(sent) * batchSize = i
    /\ pc \in {"resp", "fail"} => (Len(sent) - 1) * batchSize = i

C9_Witness ==
    /\ Len(sent) = 2
    /\ result.failed_items > 0
    /\ pc = "resp"

UnknownId == MaxTasks + 1

C11_NoEmptyTitle ==
    /\ \A id \in TaskIds : tasks[id].title # << >>
    /\ \A e \in queue : e.data.title # << >>

\* C12: a create that returns the task has added exactly one Record, under an
\* id no Record had, with a non-empty trimmed title, pending, not deleted,
\* created_at = updated_at, and exactly one Queue Entry for that id, with
\* operation create and retry_count 0; a create that throws has added neither a
\* Record nor a Queue Entry.
C12_CreatePostcondition ==
    [][ret'.op = "create" =>
          IF ret'.val = "task"
          THEN /\ ret'.id \notin TaskIds
               /\ Len(tasks') = Len(tasks) + 1
               /\ ret'.id = Len(tasks')
               /\ \A x \in TaskIds : tasks'[x] = tasks[x]
               /\ tasks'[ret'.id].title # << >>
               /\ Trim(tasks'[ret'.id].title) = tasks'[ret'.id].title
               /\ tasks'[ret'.id].sync_status = "pending"
               /\ tasks'[ret'.id].is_deleted = FALSE
               /\ tasks'[ret'.id].created_at = tasks'[ret'.id].updated_at
               /\ queue \subseteq queue'
               /\ queue' \ queue = EntriesOf(queue', ret'.id)
               /\ Cardinality(EntriesOf(queue', ret'.id)) = 1
               /\ \A e \in EntriesOf(queue', ret'.id) :
                     /\ e.id \notin RowIds(queue)
                     /\ e.operation = "create"
                     /\ e.retry_count = 0
          ELSE UNCHANGED <<tasks, queue>>]_vars

C12_Witness ==
    /\ ret.op = "create"
    /\ ret.val = "task"
    /\ ret.id = 2
    /\ tasks[1].sync_status = "synced"
    /\ Cardinality(queue) = 1

\* A processed item is applied in this step.
ItemStep == pc = "resp" /\ k' = k + 1

\* C13 as stated: when an item with status error is applied, the Queue Entry
\* that item answers gets retry_count + 1 and the item's error as
\* error_message, and the Record is pending or error afterwards, not synced.
C13_ErrorHitsAnsweredEntry ==
    [][(ItemStep /\ pi'.status = "error") =>
          /\ \A e \in queue :
                e.id = pi'.entry =>
                    \E f \in queue' :
                        /\ f.id = e.id
                        /\ f.retry_count = e.retry_count + 1
                        /\ f.error_message = pi'.error
          /\ tasks'[pi'.client_id].sync_status \in {"pending", "error"}]_vars

\* C14: when the post of a batch fails, handling a row of the batch raises the
\* retry_count of that row by exactly one and stores the transport error as
\* its error_message, leaves every other row as it was and prunes none, adds
\* one to failed_items and one error (for that row's task) to errors; and the
\* batch is left only when every row of it has been handled.
C14_TransportFailure ==
    [][/\ (pc = "fail" /\ k' = k + 1) =>
            /\ \A e \in queue :
                  IF e.id = Batch[k].id
                  THEN \E f \in queue' :
                          /\ f.id = e.id
                          /\ f.retry_count = e.retry_count + 1
                          /\ f.error_message = TransportError
                  ELSE e \in queue'
            /\ RowIds(queue') = RowIds(queue)
            /\ result'.failed_items = result.failed_items + 1
            /\ result'.synced_items = result.synced_items
            /\ Len(result'.errors) = Len(result.errors) + 1
            /\ result'.errors[Len(result'.errors)].task_id = Batch[k].task_id
            /\ result'.errors[Len(result'.errors)].error = TransportError
       /\ (pc = "fail" /\ pc' # "fail") =>
            /\ k = Len(Batch) + 1
            /\ result.failed_items >= Len(Batch)]_vars

C14_Witness ==
    /\ pc = "fail"
    /\ Len(Batch) = 2
    /\ k = 3
    /\ result.failed_items = 2
    /\ Len(result.errors) = 2
    /\ \A x \in 1..2 : \E e \in queue :
          /\ e.id = Batch[x].id
          /\ e.retry_count = Batch[x].retry_count + 1
          /\ e.error_message = TransportError

\* A failure is handled in this step: a row of a batch whose post failed, or
\* an item the remote answered with status error.
FailureStep ==
    \/ pc = "fail" /\ k' = k + 1
    \/ ItemStep /\ pi'.status = "error"

C16_PruneIdempotent ==
    [][/\ (ItemStep /\ pi'.status \in {"success", "conflict"}) =>
            EntriesOf(queue', pi'.client_id) = {}
       /\ pc # "idle" =>
            /\ RowIds(queue') \subseteq RowIds(queue)
            /\ \A x \in 1..Len(items') : items'[x] \in queue \/ items' = items
            /\ \A n \in 1..Len(sent') : \A y \in 1..Len(sent'[n]) :
                  \E x \in 1..Len(items') : items'[x].id = sent'[n][y]
            /\ \A id \in TaskIds :
                  (\A x \in 1..Len(items') : items'[x].task_id # id) =>
                      /\ tasks'[id] = tasks[id]
                      /\ EntriesOf(queue', id) = EntriesOf(queue, id)]_vars

C16_Witness ==
    /\ pc = "done"
    /\ connected
    /\ items = << >>
    /\ queue = {}
    /\ \E id \in TaskIds :
          /\ tasks[id].sync_status = "synced"
          /\ tasks[id].server_id # NoVal

\* C17 as stated: in no state is a Record synced while a Queue Entry of it
\* exists, and in no state is a Record without Queue Entries not synced.
C17_StatusAndPruneAtomic ==
    \A id \in TaskIds :
        tasks[id].sync_status = "synced" <=> EntriesOf(queue, id) = {}

\* Rows of the run handled so far.
Handled ==
    IF pc = "batch" THEN i
    ELSE IF pc \in {"resp", "fail"} THEN i + k - 1
    ELSE Len(items)

ResultConsistent ==
    (connected /\ pc \in {"batch", "resp", "fail", "done"}) =>
        /\ result.success = (result.failed_items = 0)
        /\ Len(result.errors) = result.failed_items
        /\ result.synced_items + result.failed_items = Handled
        /\ Len(items) = 0 => result = InitResult

\* C18: in a run that reached the remote, success is false exactly when
\* failed_items > 0, errors has one element per failed item, synced_items
\* rises by one with every success or conflict item and with nothing else,
\* failed_items by one with every failure and with nothing else, the two
\* add up to the rows handled, and an empty queue gives success with zero
\* synced and zero failed.
C18_ResultAggregation ==
    [][/\ ResultConsistent'
       /\ (ItemStep /\ pi'.status \in {"success", "conflict"}) =>
            /\ result'.synced_items = result.synced_items + 1
            /\ result'.failed_items = result.failed_items
       /\ FailureStep =>
            /\ result'.synced_items = result.synced_items
            /\ result'.failed_items = result.failed_items + 1
       /\ (pc \in {"batch", "resp", "fail"} /\ ~FailureStep /\ ~ItemStep) =>
            result' = result]_vars

C18_Witness ==
    /\ pc = "done"
    /\ connected
    /\ Len(items) = 3
    /\ result.failed_items = 2
    /\ result.synced_items = 1
    /\ ~result.success
    /\ Len(result.errors) = 2

\* C19 as stated: once a conflict item has been applied, the Record is the
\* version resolveConflict picks between the local Record and the remote's
\* resolved_data: the one with the greater updated_at, the remote's on a tie.
C19_LastWriteWins ==
    [][(ItemStep /\ pi'.status = "conflict") =>
          /\ tasks'[pi'.client_id].title =
                ResolveConflict(tasks[pi'.client_id], pi'.resolved_data).title
          /\ tasks'[pi'.client_id].updated_at =
                ResolveConflict(tasks[pi'.client_id], pi'.resolved_data).updated_at]_vars

\* C20: a delete that returns true has set is_deleted and sync_status pending
\* on the Record, removed no Record, and appended exactly one Queue Entry, for
\* that Record, with operation delete and is_deleted = true in its payload;
\* and no step at all makes the tasks table shorter or drops an id from it.
C20_SoftDelete ==
    [][/\ Len(tasks') >= Len(tasks)
       /\ (ret'.op = "delete" /\ ret'.val = "true") =>
            /\ Len(tasks') = Len(tasks)
            /\ tasks'[ret'.id].is_deleted = TRUE
            /\ tasks'[ret'.id].sync_status = "pending"
            /\ \A x \in TaskIds : x # ret'.id => tasks'[x] = tasks[x]
            /\ queue \subseteq queue'
            /\ Cardinality(queue' \ queue) = 1
            /\ \A e \in queue' \ queue :
                  /\ e.id \notin RowIds(queue)
                  /\ e.task_id = ret'.id
                  /\ e.operation = "delete"
                  /\ e.data.is_deleted = TRUE
                  /\ e.retry_count = 0]_vars

C20_Witness ==
    /\ ret.op = "delete"
    /\ ret.val = "true"
    /\ tasks[ret.id].is_deleted
    /\ tasks[ret.id].server_id # NoVal
    /\ \E e \in queue : e.task_id = ret.id /\ e.operation = "delete"

\* C21 as stated: a Queue Entry appended while a sync() run is in flight (a
\* row the run did not fetch) is not removed by any step of that run, and no
\* step of the run leaves its Record synced.
C21_NoMutationLost ==
    [][(pc # "idle" /\ pc # "checked" /\ pc # "done") =>
          \A e \in queue :
              (\A x \in 1..Len(items) : items[x].id # e.id) =>
                  /\ e \in queue'
                  /\ tasks'[e.task_id].sync_status \in {"pending", "error"}]_vars

\* The batches a run over n fetched rows posts at most.
MaxBatches == (Len(items) + batchSize - 1) \div batchSize

\* C22: a sync() run that has started reaches its return; it posts at most
\* ceil(n / batchSize) batches for the n rows it fetched, and only rows it
\* fetched, also when rows are appended while it runs; and at its return
\* synced_items + failed_items = n.
C22_RunTerminatesAndAccounts ==
    /\ [](pc \in {"batch", "resp", "fail", "done"} =>
            /\ Len(sent) <= MaxBatches
            /\ \A n \in 1..Len(sent) : \A y \in 1..Len(sent[n]) :
                  \E x \in 1..Len(items) : items[x].id = sent[n][y]
            /\ pc = "batch" => Len(sent) < MaxBatches
            /\ (pc = "done" /\ connected) =>
                  result.synced_items + result.failed_items = Len(items))
    /\ (pc = "checked") ~> (pc = "done")

C22_Witness ==
    /\ pc = "done"
    /\ connected
    /\ batchSize = 2
    /\ Len(items) = 2
    /\ Len(sent) = 1
    /\ Cardinality(queue) = 2
    /\ \E e \in queue : \A x \in 1..Len(items) : items[x].id # e.id
    /\ result.synced_items = 1
    /\ result.failed_items = 1

====
